---------------------------- MODULE Spec2Model ----------------------------
(***************************************************************************)
(* Model of cita-common's transaction / block integrity pipeline           *)
(* (libproto/src/lib.rs) and of the hashed-key trie view                    *)
(* (util/src/trie/sectriedb.rs).                                            *)
(*                                                                         *)
(* Byte strings are sequences of naturals in 0..255.  An Option is a        *)
(* sequence of length at most one.  A Result is a record with an "ok" flag. *)
(***************************************************************************)
EXTENDS Naturals, Sequences, FiniteSets

VARIABLES
    utx,        \* Option<UnverifiedTransaction>: the artifact in hand
    origin,     \* Option<[t, k]>: the transaction and key utx was built from
    tampered,   \* has a setter changed utx since it was built
    stx,        \* Option<SignedTransaction>: result of the last sign
    rec,        \* Option<Result>: result of the last recover_public on utx
    vres,       \* Option<Result>: result of the last verify_transaction on utx
    body,       \* BlockBody.transactions: sequence of SignedTransaction
    header,     \* BlockHeader.transactions_root: the declared root, a byte vector
    prev,       \* Option<body>: the body before the last setter call on one of its transactions
    mutIdx,     \* index of the body transaction that setter changed (0: none)
    chk,        \* Option<BOOLEAN>: result of the last check_hash
    vreq,       \* Option: the last block_verify_req call (request_id, the VerifyBlockReq returned)
    proof,      \* Option<Proof>: the proof held in memory
    wire,       \* the RLP bytes on the wire
    own,        \* Option<Proof>: the proof this system encoded into wire (none: foreign bytes)
    pres,       \* Option<Result>: result of the last Proof::decode of wire
    memdb,      \* the backing database and the root of the trie in it
    lastIns,    \* Option: the last raw insert (key, whether it was hashed, value)
    got         \* Option: the last SecTrieDB lookup (key, get, contains, root)

txVars == <<utx, origin, tampered, stx, rec, vres>>
blockVars == <<body, header, prev, mutIdx, chk, vreq>>
proofVars == <<proof, wire, own, pres>>
trieVars == <<memdb, lastIns, got>>
vars == <<txVars, blockVars, proofVars, trieVars>>

-----------------------------------------------------------------------------
(* Bounds of the model *)

\* width of a digest in bytes (H256 scaled down)
HashLen == 2
\* private keys are 1..MaxKey
MaxKey == 2
\* nonces are "0" .. "MaxNonce"
MaxNonce == 1
\* a block body holds at most MaxTxs transactions
MaxTxs == 2
\* request ids are 0..MaxReqId
MaxReqId == 1
\* a proof's content has at most MaxContent bytes
MaxContent == 1
\* trie keys are <<1, 35>> .. <<MaxTrieKey, 35>>
MaxTrieKey == 2

-----------------------------------------------------------------------------
(* External primitives: hash, canonical codec, signature scheme *)

\* m^e modulo 256, by squaring
RECURSIVE PowMod(_, _)
PowMod(m, e) ==
    IF e = 0 THEN 1
    ELSE LET h == PowMod(m, e \div 2)
         IN  IF e % 2 = 0 THEN (h * h) % 256 ELSE (((h * h) % 256) * m) % 256

\* the polynomial sum of b[lo..hi], by halves:
\* the sum over i of (b[i] + 1) * m^(hi - i), modulo 256
RECURSIVE HashSum(_, _, _, _)
HashSum(b, m, lo, hi) ==
    IF lo > hi THEN 0
    ELSE IF lo = hi THEN (b[lo] + 1) % 256
    ELSE LET mid == (lo + hi) \div 2
         IN  (HashSum(b, m, lo, mid) * PowMod(m, hi - mid)
              + HashSum(b, m, mid + 1, hi)) % 256

\* byte j of the digest of b: acc := 7 * j; for each byte x, acc := acc * m + x + 1,
\* with the odd multiplier m = 29 + 2 * j
HashByte(b, j) ==
    LET m == 29 + 2 * j
    IN  (((7 * j) % 256) * PowMod(m, Len(b)) + HashSum(b, m, 1, Len(b))) % 256

\* Hashable::crypt_hash for byte slices: an H256 as its byte vector
crypt_hash(b) == [j \in 1..HashLen |-> HashByte(b, j)]

\* H256::from(&[u8]) / H256::from_slice: copies min(len, width) bytes
H256_from_slice(v) ==
    [i \in 1..HashLen |-> IF i <= Len(v) THEN v[i] ELSE 0]

SIGNATURE_BYTES_LEN == 65

SECP == 0
SM2 == 1
Crypto == {SECP, SM2}
\* the scheme tags recover_public has a branch for
SupportedCrypto == {SECP}

PrivKeys == 1..MaxKey

\* KeyPair::from_privkey(sk).pubkey().to_vec()
pubkey_of(sk) == <<(sk * 7) % 251>>

\* Signature::sign(&sk, &Message::from(hash)).to_vec()
Signature_sign(sk, msg) ==
    [i \in 1..SIGNATURE_BYTES_LEN |->
        IF i <= HashLen THEN (msg[i] + 17 * sk) % 256 ELSE 0]

\* Signature::recover(&hash): the key whose signature of hash this is, if any
Signature_recover(sig, msg) ==
    LET fits(k) == \A i \in 1..SIGNATURE_BYTES_LEN :
                       sig[i] = Signature_sign(k, msg)[i]
        ks == {k \in PrivKeys : fits(k)}
    IN  IF ks = {} THEN [ok |-> FALSE, pubkey |-> <<>>]
        ELSE [ok |-> TRUE, pubkey |-> pubkey_of(CHOOSE k \in ks : TRUE)]

\* protobuf wire format: length-delimited and varint fields, defaults omitted
LenDelim(tag, b) == IF b = <<>> THEN <<>> ELSE <<tag, Len(b)>> \o b
Varint(tag, v) == IF v = 0 THEN <<>> ELSE <<tag, v>>
Nested(tag, b) == <<tag, Len(b)>> \o b

\* TryInto<Vec<u8>> for &Transaction
Transaction_try_into(t) ==
    LenDelim(10, t.to) \o LenDelim(18, t.nonce) \o Varint(24, t.quota)
    \o Varint(32, t.valid_until_block) \o LenDelim(42, t.data)
    \o LenDelim(50, t.value) \o Varint(56, t.chain_id)

\* TryInto<Vec<u8>> for &UnverifiedTransaction
UnverifiedTransaction_try_into(u) ==
    Nested(10, Transaction_try_into(u.transaction))
    \o LenDelim(18, u.signature) \o Varint(24, u.crypto)

Transactions ==
    {[to |-> <<49, 50, 51>>, nonce |-> <<48 + n>>, quota |-> 9,
      valid_until_block |-> 99, data |-> d, value |-> <<>>, chain_id |-> c]
        : n \in 0..MaxNonce, d \in {<<>>, <<1>>}, c \in {0, 1}}

-----------------------------------------------------------------------------
(* libproto/src/lib.rs *)

\* UnverifiedTransaction::crypt_hash
UnverifiedTransaction_crypt_hash(u) ==
    crypt_hash(UnverifiedTransaction_try_into(u))

\* Transaction::build_unverified
build_unverified(t, sk) ==
    LET hash == crypt_hash(Transaction_try_into(t))
    IN  [transaction |-> t,
         signature |-> Signature_sign(sk, hash),
         crypto |-> SECP]

\* sign, caching the hash of the inner transaction instead
sign_inner_hash(t, sk) ==
    LET unverified_tx == build_unverified(t, sk)
    IN  [signer |-> pubkey_of(sk),
         tx_hash |-> crypt_hash(Transaction_try_into(t)),
         transaction_with_sig |-> unverified_tx]

\* Transaction::sign
sign(t, sk) ==
    LET unverified_tx == build_unverified(t, sk)
    IN  [signer |-> pubkey_of(sk),
         tx_hash |-> crypt_hash(UnverifiedTransaction_try_into(unverified_tx)),
         transaction_with_sig |-> unverified_tx]

\* recover_public, recovering from the outer hash instead of the inner one
recover_public_outer_hash(u) ==
    LET tx_hash == UnverifiedTransaction_crypt_hash(u)
        Err(s) == [ok |-> FALSE, pubkey |-> <<>>, hash |-> tx_hash, err |-> s]
    IN  IF Len(u.signature) # SIGNATURE_BYTES_LEN
        THEN Err("Invalid signature length")
        ELSE IF u.crypto = SECP
        THEN LET r == Signature_recover(u.signature, tx_hash)
             IN  IF r.ok
                 THEN [ok |-> TRUE, pubkey |-> r.pubkey, hash |-> tx_hash,
                       err |-> ""]
                 ELSE Err("Recover error")
        ELSE Err("Unexpected crypto")

\* recover_public, dispatching on the scheme before checking the length
recover_public_scheme_first(u) ==
    LET hash == crypt_hash(Transaction_try_into(u.transaction))
        tx_hash == UnverifiedTransaction_crypt_hash(u)
        Err(s) == [ok |-> FALSE, pubkey |-> <<>>, hash |-> tx_hash, err |-> s]
    IN  IF u.crypto # SECP THEN Err("Unexpected crypto")
        ELSE IF Len(u.signature) # SIGNATURE_BYTES_LEN
        THEN Err("Invalid signature length")
        ELSE LET r == Signature_recover(u.signature, hash)
             IN  IF r.ok
                 THEN [ok |-> TRUE, pubkey |-> r.pubkey, hash |-> tx_hash,
                       err |-> ""]
                 ELSE Err("Recover error")

\* recover_public, with every scheme tag falling through to SECP
recover_public_default_secp(u) ==
    LET hash == crypt_hash(Transaction_try_into(u.transaction))
        tx_hash == UnverifiedTransaction_crypt_hash(u)
        Err(s) == [ok |-> FALSE, pubkey |-> <<>>, hash |-> tx_hash, err |-> s]
    IN  IF Len(u.signature) # SIGNATURE_BYTES_LEN
        THEN Err("Invalid signature length")
        ELSE LET r == Signature_recover(u.signature, hash)
             IN  IF r.ok
                 THEN [ok |-> TRUE, pubkey |-> r.pubkey, hash |-> tx_hash,
                       err |-> ""]
                 ELSE Err("Recover error")

\* UnverifiedTransaction::recover_public
recover_public(u) ==
    LET hash == crypt_hash(Transaction_try_into(u.transaction))
        tx_hash == UnverifiedTransaction_crypt_hash(u)
        Err(s) == [ok |-> FALSE, pubkey |-> <<>>, hash |-> tx_hash, err |-> s]
    IN  IF Len(u.signature) # SIGNATURE_BYTES_LEN
        THEN Err("Invalid signature length")
        ELSE IF u.crypto = SECP
        THEN LET r == Signature_recover(u.signature, hash)
             IN  IF r.ok
                 THEN [ok |-> TRUE, pubkey |-> r.pubkey, hash |-> tx_hash,
                       err |-> ""]
                 ELSE Err("Recover error")
        ELSE Err("Unexpected crypto")

\* SignedTransaction::verify_transaction
verify_transaction(u) ==
    LET r == recover_public(u)
    IN  IF ~r.ok THEN [ok |-> FALSE, value |-> <<>>, hash |-> r.hash]
        ELSE [ok |-> TRUE,
              value |-> <<[signer |-> r.pubkey,
                           tx_hash |-> r.hash,
                           transaction_with_sig |-> u]>>,
              hash |-> <<>>]

\* SignedTransaction::crypt_hash
SignedTransaction_crypt_hash(s) == H256_from_slice(s.tx_hash)

------------------------------------------------------------------------
\* MerkleTree::from_hashes(hashes).get_root_hash(): pairs are hashed level by
\* level, an odd last node is carried up, no leaves give the null-RLP hash
HASH_NULL_RLP == crypt_hash(<<128>>)

MerkleLevel(nodes) ==
    [i \in 1..((Len(nodes) + 1) \div 2) |->
        IF 2 * i <= Len(nodes)
        THEN crypt_hash(nodes[2 * i - 1] \o nodes[2 * i])
        ELSE nodes[2 * i - 1]]

RECURSIVE MerkleRoot(_)
MerkleRoot(nodes) ==
    IF nodes = <<>> THEN HASH_NULL_RLP
    ELSE IF Len(nodes) = 1 THEN nodes[1]
    ELSE MerkleRoot(MerkleLevel(nodes))

\* transaction_hashes, hashing each wrapped transaction anew instead of
\* reading the cached field
transaction_hashes_recomputed(b) ==
    [i \in 1..Len(b) |->
        crypt_hash(UnverifiedTransaction_try_into(b[i].transaction_with_sig))]

\* BlockBody::transaction_hashes
transaction_hashes(b) ==
    [i \in 1..Len(b) |-> H256_from_slice(b[i].tx_hash)]

\* BlockBody::transactions_root
transactions_root(b) == MerkleRoot(transaction_hashes(b))

\* Block::check_hash
check_hash(block) == transactions_root(block.body) = block.header

\* tx_verify_req_msg, with the inner hash in both hash fields
tx_verify_req_msg_inner_hash(u) ==
    [valid_until_block |-> u.transaction.valid_until_block,
     hash |-> crypt_hash(Transaction_try_into(u.transaction)),
     crypto |-> u.crypto,
     signature |-> u.signature,
     nonce |-> u.transaction.nonce,
     value |-> u.transaction.value,
     chain_id |-> u.transaction.chain_id,
     quota |-> u.transaction.quota,
     tx_hash |-> crypt_hash(Transaction_try_into(u.transaction)),
     signer |-> <<>>]

\* UnverifiedTransaction::tx_verify_req_msg
tx_verify_req_msg(u) ==
    [valid_until_block |-> u.transaction.valid_until_block,
     hash |-> crypt_hash(Transaction_try_into(u.transaction)),
     crypto |-> u.crypto,
     signature |-> u.signature,
     nonce |-> u.transaction.nonce,
     value |-> u.transaction.value,
     chain_id |-> u.transaction.chain_id,
     quota |-> u.transaction.quota,
     tx_hash |-> UnverifiedTransaction_crypt_hash(u),
     signer |-> <<>>]

\* block_verify_req, without the set_signer call
block_verify_req_no_signer(block, request_id) ==
    [id |-> request_id,
     reqs |-> [i \in 1..Len(block.body) |->
                 tx_verify_req_msg(block.body[i].transaction_with_sig)]]

\* Block::block_verify_req
block_verify_req(block, request_id) ==
    [id |-> request_id,
     reqs |-> [i \in 1..Len(block.body) |->
                 [tx_verify_req_msg(block.body[i].transaction_with_sig)
                     EXCEPT !.signer = block.body[i].signer]]]


\* ProofType: AuthorityRound, Raft, Tendermint
ProofTypes == 0..2

\* TryInto<Vec<u8>> for &Proof
Proof_try_into(p) == LenDelim(10, p.content) \o Varint(16, p.type)

\* TryFrom<&[u8]> for Proof: fields are read tag by tag; a truncated field, an
\* unknown enum value or a tag that is no field of Proof is an error
RECURSIVE ParseProof(_, _, _)
ParseProof(b, i, acc) ==
    IF i > Len(b) THEN [ok |-> TRUE, value |-> <<acc>>]
    ELSE IF b[i] = 10 /\ i + 1 <= Len(b) /\ i + 1 + b[i + 1] <= Len(b)
    THEN ParseProof(b, i + 2 + b[i + 1],
                    [acc EXCEPT !.content = SubSeq(b, i + 2, i + 1 + b[i + 1])])
    ELSE IF b[i] = 16 /\ i + 1 <= Len(b) /\ b[i + 1] \in ProofTypes
    THEN ParseProof(b, i + 2, [acc EXCEPT !.type = b[i + 1]])
    ELSE [ok |-> FALSE, value |-> <<>>]

Proof_try_from(b) == ParseProof(b, 1, [content |-> <<>>, type |-> 0])

\* RlpStream::encoder().encode_value, for values shorter than 56 bytes
Rlp_encode_value(b) ==
    IF Len(b) = 1 /\ b[1] < 128 THEN b ELSE <<128 + Len(b)>> \o b

\* UntrustedRlp::decoder().decode_value: the bytes handed to the closure, or
\* a DecoderError
Rlp_decode_value(rlp) ==
    IF rlp = <<>> THEN [ok |-> FALSE, data |-> <<>>]
    ELSE IF rlp[1] < 128 THEN [ok |-> TRUE, data |-> <<rlp[1]>>]
    ELSE IF rlp[1] < 184
    THEN LET n == rlp[1] - 128
         IN  IF Len(rlp) < 1 + n THEN [ok |-> FALSE, data |-> <<>>]
             ELSE IF n = 1 /\ rlp[2] < 128 THEN [ok |-> FALSE, data |-> <<>>]
             ELSE [ok |-> TRUE, data |-> SubSeq(rlp, 2, 1 + n)]
    ELSE [ok |-> FALSE, data |-> <<>>]

\* impl Decodable for Proof: decode.  The closure unwraps Proof::try_from.
Proof_decode(rlp) ==
    LET d == Rlp_decode_value(rlp)
    IN  IF ~d.ok THEN [kind |-> "Err", value |-> <<>>]
        ELSE LET r == Proof_try_from(d.data)
             IN  IF r.ok THEN [kind |-> "Ok", value |-> r.value]
                 ELSE [kind |-> "Panic", value |-> <<>>]

\* rlp_append, encoding the content bytes alone
Proof_rlp_append_content(p) == Rlp_encode_value(p.content)

\* impl Encodable for Proof: rlp_append
Proof_rlp_append(p) == Rlp_encode_value(Proof_try_into(p))

-----------------------------------------------------------------------------
(* util/src/trie/sectriedb.rs *)

\* TrieDB::new(db, root): the raw trie of db at root
TrieDB_new(db, root) == [db |-> db, root |-> root]

\* TrieDB::get: the value stored under key, if any
TrieDB_get(t, key) ==
    IF \E e \in t.db : e[1] = key
    THEN <<(CHOOSE e \in t.db : e[1] = key)[2]>>
    ELSE <<>>

\* TrieDB::contains
TrieDB_contains(t, key) == \E e \in t.db : e[1] = key

\* TrieDB::root
TrieDB_root(t) == t.root

\* SecTrieDB::new
SecTrieDB_new(db, root) == [raw |-> TrieDB_new(db, root)]

\* SecTrieDB::raw
SecTrieDB_raw(t) == t.raw

\* Trie::root for SecTrieDB
SecTrieDB_root(t) == TrieDB_root(t.raw)

\* Trie::contains for SecTrieDB
SecTrieDB_contains(t, key) == TrieDB_contains(t.raw, crypt_hash(key))

\* get_with, passing the key on unhashed
SecTrieDB_get_raw_key(t, key) == TrieDB_get(t.raw, key)

\* Trie::get_with for SecTrieDB, with the identity query of Trie::get
SecTrieDB_get(t, key) == TrieDB_get(t.raw, crypt_hash(key))

-----------------------------------------------------------------------------
(* Signing and verification session *)

InitTx ==
    /\ utx = <<>> /\ origin = <<>> /\ tampered = FALSE
    /\ stx = <<>> /\ rec = <<>> /\ vres = <<>>

\* a client signs t with k and ships the wrapped artifact
Sign(t, k) ==
    /\ utx = <<>>
    /\ LET signed_tx == sign(t, k)
       IN  /\ stx' = <<signed_tx>>
           /\ utx' = <<signed_tx.transaction_with_sig>>
    /\ origin' = <<[t |-> t, k |-> k]>>
    /\ tampered' = FALSE /\ rec' = <<>> /\ vres' = <<>>
    /\ UNCHANGED <<blockVars, proofVars, trieVars>>

BuildUnverified(t, k) ==
    /\ utx = <<>>
    /\ utx' = <<build_unverified(t, k)>>
    /\ origin' = <<[t |-> t, k |-> k]>>
    /\ tampered' = FALSE /\ stx' = <<>> /\ rec' = <<>> /\ vres' = <<>>
    /\ UNCHANGED <<blockVars, proofVars, trieVars>>

\* set_signature with a signature one byte short (grow = FALSE) or long
ResizeSignature(grow) ==
    /\ utx # <<>> /\ Len(utx[1].signature) = SIGNATURE_BYTES_LEN
    /\ utx' = <<[utx[1] EXCEPT !.signature =
                    IF grow THEN Append(@, 0) ELSE SubSeq(@, 1, Len(@) - 1)]>>
    /\ tampered' = TRUE /\ rec' = <<>> /\ vres' = <<>>
    /\ UNCHANGED <<origin, stx>>
    /\ UNCHANGED <<blockVars, proofVars, trieVars>>

\* set_signature with the first byte changed
FlipSignature ==
    /\ utx # <<>> /\ ~tampered
    /\ utx' = <<[utx[1] EXCEPT !.signature[1] = (@ + 1) % 256]>>
    /\ tampered' = TRUE /\ rec' = <<>> /\ vres' = <<>>
    /\ UNCHANGED <<origin, stx>>
    /\ UNCHANGED <<blockVars, proofVars, trieVars>>

\* set_crypto with another scheme tag
SetCrypto(c) ==
    /\ utx # <<>> /\ utx[1].crypto # c
    /\ utx' = <<[utx[1] EXCEPT !.crypto = c]>>
    /\ tampered' = TRUE /\ rec' = <<>> /\ vres' = <<>>
    /\ UNCHANGED <<origin, stx>>
    /\ UNCHANGED <<blockVars, proofVars, trieVars>>

RecoverPublic ==
    /\ utx # <<>>
    /\ rec' = <<recover_public(utx[1])>>
    /\ UNCHANGED <<utx, origin, tampered, stx, vres>>
    /\ UNCHANGED <<blockVars, proofVars, trieVars>>

VerifyTransaction ==
    /\ utx # <<>>
    /\ vres' = <<verify_transaction(utx[1])>>
    /\ UNCHANGED <<utx, origin, tampered, stx, rec>>
    /\ UNCHANGED <<blockVars, proofVars, trieVars>>

\* the artifact is dropped; the next one is taken up
Discard ==
    /\ utx # <<>>
    /\ utx' = <<>> /\ origin' = <<>> /\ tampered' = FALSE
    /\ stx' = <<>> /\ rec' = <<>> /\ vres' = <<>>
    /\ UNCHANGED <<blockVars, proofVars, trieVars>>

NextTx ==
    \/ \E t \in Transactions, k \in PrivKeys : Sign(t, k)
    \/ \E t \in Transactions, k \in PrivKeys : BuildUnverified(t, k)
    \/ \E grow \in BOOLEAN : ResizeSignature(grow)
    \/ FlipSignature
    \/ \E c \in Crypto : SetCrypto(c)
    \/ RecoverPublic
    \/ VerifyTransaction
    \/ Discard

-----------------------------------------------------------------------------
(* Block assembly and checking session *)

\* the transactions a block producer includes: nonces "0" and "1", signed by
\* key 1
BlockPool ==
    {sign([to |-> <<49, 50, 51>>, nonce |-> n, quota |-> 9,
           valid_until_block |-> 99, data |-> <<>>, value |-> <<>>,
           chain_id |-> 1], 1) : n \in {<<48>>, <<49>>}}

\* a digest no transaction of the pool has
ForgedHash == [j \in 1..HashLen |-> 255]

Block == [body |-> body, header |-> header]

InitBlock ==
    /\ body = <<>> /\ header = <<>> /\ prev = <<>> /\ mutIdx = 0
    /\ chk = <<>> /\ vreq = <<>>

\* the producer appends a transaction it signed or verified
PushTransaction(s) ==
    /\ Len(body) < MaxTxs /\ prev = <<>>
    /\ body' = Append(body, s)
    /\ chk' = <<>> /\ vreq' = <<>>
    /\ UNCHANGED <<header, prev, mutIdx>>
    /\ UNCHANGED <<txVars, proofVars, trieVars>>

\* the producer declares the root of the body as it stands
SealHeader ==
    /\ prev = <<>>
    /\ header' = transactions_root(body)
    /\ header' # header
    /\ chk' = <<>> /\ vreq' = <<>>
    /\ UNCHANGED <<body, prev, mutIdx>>
    /\ UNCHANGED <<txVars, proofVars, trieVars>>

\* set_signer on body transaction i
SetSigner(i) ==
    /\ prev = <<>>
    /\ prev' = <<body>> /\ mutIdx' = i
    /\ body' = [body EXCEPT ![i].signer = pubkey_of(MaxKey + 1)]
    /\ chk' = <<>> /\ vreq' = <<>>
    /\ UNCHANGED header
    /\ UNCHANGED <<txVars, proofVars, trieVars>>

\* set_tx_hash on body transaction i
SetTxHash(i) ==
    /\ prev = <<>>
    /\ prev' = <<body>> /\ mutIdx' = i
    /\ body' = [body EXCEPT ![i].tx_hash = ForgedHash]
    /\ chk' = <<>> /\ vreq' = <<>>
    /\ UNCHANGED header
    /\ UNCHANGED <<txVars, proofVars, trieVars>>

\* set_transaction_with_sig on body transaction i
SetTransactionWithSig(i, s) ==
    /\ prev = <<>>
    /\ s.transaction_with_sig # body[i].transaction_with_sig
    /\ prev' = <<body>> /\ mutIdx' = i
    /\ body' = [body EXCEPT ![i].transaction_with_sig = s.transaction_with_sig]
    /\ chk' = <<>> /\ vreq' = <<>>
    /\ UNCHANGED header
    /\ UNCHANGED <<txVars, proofVars, trieVars>>

\* body transaction i is replaced by another signed transaction
ReplaceTransaction(i, s) ==
    /\ prev = <<>>
    /\ s # body[i]
    /\ prev' = <<body>> /\ mutIdx' = i
    /\ body' = [body EXCEPT ![i] = s]
    /\ chk' = <<>> /\ vreq' = <<>>
    /\ UNCHANGED header
    /\ UNCHANGED <<txVars, proofVars, trieVars>>

CheckHash ==
    /\ chk' = <<check_hash(Block)>>
    /\ UNCHANGED <<body, header, prev, mutIdx, vreq>>
    /\ UNCHANGED <<txVars, proofVars, trieVars>>

BlockVerifyReq(id) ==
    /\ vreq' = <<[request_id |-> id, ret |-> block_verify_req(Block, id)]>>
    /\ UNCHANGED <<body, header, prev, mutIdx, chk>>
    /\ UNCHANGED <<txVars, proofVars, trieVars>>

NextBlock ==
    \/ \E s \in BlockPool : PushTransaction(s)
    \/ SealHeader
    \/ \E i \in 1..Len(body) : SetSigner(i)
    \/ \E i \in 1..Len(body) : SetTxHash(i)
    \/ \E i \in 1..Len(body), s \in BlockPool : SetTransactionWithSig(i, s)
    \/ \E i \in 1..Len(body), s \in BlockPool : ReplaceTransaction(i, s)
    \/ CheckHash
    \/ \E id \in 0..MaxReqId : BlockVerifyReq(id)

-----------------------------------------------------------------------------
(* Proof encoding session *)

Contents ==
    {<<>>} \cup UNION {[1..n -> {0, 200}] : n \in 1..MaxContent}

Proofs == [content : Contents, type : ProofTypes]

\* bytes that did not come from this system's encoder
ForeignWire ==
    {<<>>, <<10>>, <<130, 10, 5>>, <<131, 16, 1>>, <<130, 16, 1>>, <<192>>,
     <<132, 16, 2, 10, 0>>}

InitProof ==
    /\ proof = <<>> /\ wire = <<>> /\ own = <<>> /\ pres = <<>>

\* Proof::new and its setters
NewProof(p) ==
    /\ proof' = <<p>>
    /\ UNCHANGED <<wire, own, pres>>
    /\ UNCHANGED <<txVars, blockVars, trieVars>>

\* rlp::encode(&proof)
Encode ==
    /\ proof # <<>>
    /\ wire' = Proof_rlp_append(proof[1])
    /\ own' = proof
    /\ pres' = <<>>
    /\ UNCHANGED proof
    /\ UNCHANGED <<txVars, blockVars, trieVars>>

\* bytes arrive from a peer
Receive(b) ==
    /\ wire' = b
    /\ own' = <<>>
    /\ pres' = <<>>
    /\ UNCHANGED proof
    /\ UNCHANGED <<txVars, blockVars, trieVars>>

\* rlp::decode::<Proof>(&wire); a decoded proof replaces the one in memory
Decode ==
    /\ pres' = <<Proof_decode(wire)>>
    /\ proof' = IF pres'[1].kind = "Ok" THEN pres'[1].value ELSE proof
    /\ UNCHANGED <<wire, own>>
    /\ UNCHANGED <<txVars, blockVars, trieVars>>

NextProof ==
    \/ \E p \in Proofs : NewProof(p)
    \/ Encode
    \/ \E b \in ForeignWire : Receive(b)
    \/ Decode

-----------------------------------------------------------------------------
(* Trie session *)

TrieKeys == {<<i, 35>> : i \in 1..MaxTrieKey}
TrieValues == {<<1, 35>>, <<9>>}

\* the root of a trie: a digest of its entries, whatever the order of insertion
RECURSIVE EntrySum(_, _)
EntrySum(es, j) ==
    IF es = {} THEN 0
    ELSE LET e == CHOOSE x \in es : TRUE
         IN  (HashByte(<<Len(e[1])>> \o e[1] \o e[2], j)
              + EntrySum(es \ {e}, j)) % 256

TrieRoot(es) ==
    IF es = {} THEN HASH_NULL_RLP ELSE [j \in 1..HashLen |-> EntrySum(es, j)]

InitTrie ==
    /\ memdb = [db |-> {}, root |-> HASH_NULL_RLP]
    /\ lastIns = <<>> /\ got = <<>>

\* TrieDBMut::new(&mut memdb, &mut root).insert(key, value)
TrieDBMut_insert(m, key, value) ==
    LET es == {e \in m.db : e[1] # key} \cup {<<key, value>>}
    IN  [db |-> es, root |-> TrieRoot(es)]

\* a value is stored in the raw trie, under the hash of k or under k itself
Insert(k, v, hashed) ==
    /\ memdb' = TrieDBMut_insert(memdb, IF hashed THEN crypt_hash(k) ELSE k, v)
    /\ lastIns' = <<[key |-> k, hashed |-> hashed, value |-> v]>>
    /\ got' = <<>>
    /\ UNCHANGED <<txVars, blockVars, proofVars>>

\* SecTrieDB::new(&memdb, &root), then get, contains and root
Lookup(k) ==
    /\ LET t == SecTrieDB_new(memdb.db, memdb.root)
       IN  got' = <<[key |-> k,
                     value |-> SecTrieDB_get(t, k),
                     has |-> SecTrieDB_contains(t, k),
                     root |-> SecTrieDB_root(t)]>>
    /\ UNCHANGED <<memdb, lastIns>>
    /\ UNCHANGED <<txVars, blockVars, proofVars>>

NextTrie ==
    \/ \E k \in TrieKeys, v \in TrieValues, h \in BOOLEAN : Insert(k, v, h)
    \/ \E k \in TrieKeys : Lookup(k)

-----------------------------------------------------------------------------

Init == InitTx /\ InitBlock /\ InitProof /\ InitTrie

SpecTx == Init /\ [][NextTx]_vars
SpecBlock == Init /\ [][NextBlock]_vars
SpecProof == Init /\ [][NextProof]_vars
SpecTrie == Init /\ [][NextTrie]_vars

Next == NextTx \/ NextBlock \/ NextProof \/ NextTrie
Spec == Init /\ [][Next]_vars

-----------------------------------------------------------------------------
(* Properties *)

\* C1: every SignedTransaction returned by sign, and every one returned by a
\* successful verify_transaction, has its cached hash (what
\* SignedTransaction::crypt_hash returns) equal to
\* UnverifiedTransaction::crypt_hash of the transaction it wraps.
C1_CachedHashIsIdentityHash ==
    /\ \A i \in 1..Len(stx) :
          SignedTransaction_crypt_hash(stx[i])
              = UnverifiedTransaction_crypt_hash(stx[i].transaction_with_sig)
    /\ \A i \in 1..Len(vres) :
          vres[i].ok =>
              /\ vres[i].value[1].transaction_with_sig = utx[1]
              /\ SignedTransaction_crypt_hash(vres[i].value[1])
                    = UnverifiedTransaction_crypt_hash(utx[1])

\* a signed transaction whose wrapped artifact has then been verified
C1_Witness ==
    /\ stx # <<>> /\ vres # <<>> /\ vres[1].ok
    /\ stx[1].transaction_with_sig = utx[1]

\* C2: verifying what build_unverified(t, k) built succeeds with the signer
\* equal to the public key of k, and the result is the SignedTransaction
\* sign(t, k) returns: same signer, same cached hash, same wrapped artifact.
C2_SignPassesVerification ==
    (vres # <<>> /\ ~tampered) =>
        /\ vres[1].ok
        /\ vres[1].value[1].signer = pubkey_of(origin[1].k)
        /\ utx[1] = build_unverified(origin[1].t, origin[1].k)
        /\ vres[1].value[1] = sign(origin[1].t, origin[1].k)
        /\ stx # <<>> => vres[1].value[1] = stx[1]

\* build_unverified's output, verified, under the second key
C2_Witness ==
    /\ vres # <<>> /\ ~tampered /\ stx = <<>>
    /\ origin[1].k = MaxKey /\ origin[1].t.data # <<>>
    /\ vres[1].ok

\* C3: when the signature length is not SIGNATURE_BYTES_LEN, recover_public
\* fails with "Invalid signature length" paired with the outer identity hash,
\* whatever the scheme tag, and recovers no key.
C3_LengthCheckedFirst ==
    (rec # <<>> /\ Len(utx[1].signature) # SIGNATURE_BYTES_LEN) =>
        rec[1] = [ok |-> FALSE, pubkey |-> <<>>,
                  hash |-> UnverifiedTransaction_crypt_hash(utx[1]),
                  err |-> "Invalid signature length"]

\* recover_public has run on a wrong-length signature under an unsupported tag
C3_Witness ==
    /\ rec # <<>> /\ Len(utx[1].signature) = SIGNATURE_BYTES_LEN + 1
    /\ utx[1].crypto \notin SupportedCrypto

\* C4: with a signature of the right length and a scheme tag outside the
\* supported set, recover_public fails with "Unexpected crypto" and recovers no
\* key, and verify_transaction is rejected with the artifact's identity hash.
C4_UnknownSchemeRejected ==
    (utx # <<>> /\ Len(utx[1].signature) = SIGNATURE_BYTES_LEN
        /\ utx[1].crypto \notin SupportedCrypto) =>
        /\ rec # <<>> =>
              rec[1] = [ok |-> FALSE, pubkey |-> <<>>,
                        hash |-> UnverifiedTransaction_crypt_hash(utx[1]),
                        err |-> "Unexpected crypto"]
        /\ vres # <<>> =>
              vres[1] = [ok |-> FALSE, value |-> <<>>,
                         hash |-> UnverifiedTransaction_crypt_hash(utx[1])]

\* both operations have run on an artifact that SECP would have accepted
C4_Witness ==
    /\ rec # <<>> /\ vres # <<>>
    /\ Len(utx[1].signature) = SIGNATURE_BYTES_LEN
    /\ utx[1].crypto = SM2
    /\ recover_public([utx[1] EXCEPT !.crypto = SECP]).ok

\* C5: no operation is fatal; decoding proof bytes that do not parse returns
\* an error and never panics.
C5_DecodeNeverPanics ==
    \A i \in 1..Len(pres) :
        /\ pres[i].kind # "Panic"
        /\ (Rlp_decode_value(wire).ok
               /\ ~Proof_try_from(Rlp_decode_value(wire).data).ok)
              => pres[i].kind = "Err"

\* C6 as stated: on a block where check_hash is true, any change of one body
\* transaction, the declared root held fixed, makes check_hash false.
C6_AnyMutationFlips ==
    (prev # <<>> /\ check_hash([body |-> prev[1], header |-> header]))
        => ~check_hash(Block)

\* the cached tx_hash fields of a body, in body order
CachedHashes(b) == [i \in 1..Len(b) |-> b[i].tx_hash]

\* C6, amended: check_hash is true iff the declared root equals the Merkle
\* root of the cached tx_hash fields in body order.  On a block where
\* check_hash is true, with the declared root held fixed, a change of one body
\* transaction that leaves its cached tx_hash as it was leaves check_hash
\* true, and a change makes check_hash false exactly when it changes the
\* Merkle root of the cached hashes.
C6_CheckHashReadsCachedHashes ==
    /\ \A i \in 1..Len(chk) :
          chk[i] = (header = MerkleRoot(CachedHashes(body)))
    /\ (prev # <<>> /\ check_hash([body |-> prev[1], header |-> header])) =>
          /\ body[mutIdx].tx_hash = prev[1][mutIdx].tx_hash => check_hash(Block)
          /\ ~check_hash(Block)
                <=> MerkleRoot(CachedHashes(body))
                        # MerkleRoot(CachedHashes(prev[1]))

\* check_hash is still true on a two-transaction block after the signer of one
\* of them was changed
C6_Witness ==
    /\ prev # <<>> /\ Len(body) = 2 /\ chk = <<TRUE>>
    /\ body[mutIdx].signer # prev[1][mutIdx].signer

\* what block_verify_req is to produce for body transaction s
ExpectedReq(s) ==
    [valid_until_block |-> s.transaction_with_sig.transaction.valid_until_block,
     hash |-> crypt_hash(Transaction_try_into(s.transaction_with_sig.transaction)),
     crypto |-> s.transaction_with_sig.crypto,
     signature |-> s.transaction_with_sig.signature,
     nonce |-> s.transaction_with_sig.transaction.nonce,
     value |-> s.transaction_with_sig.transaction.value,
     chain_id |-> s.transaction_with_sig.transaction.chain_id,
     quota |-> s.transaction_with_sig.transaction.quota,
     tx_hash |-> crypt_hash(UnverifiedTransaction_try_into(s.transaction_with_sig)),
     signer |-> s.signer]

\* C7: block_verify_req(block, id) carries the request id and one request per
\* body transaction, in body order: reqs[i] is tx_verify_req_msg of the
\* artifact body.transactions[i] wraps, with the signer that transaction
\* declares.
C7_OneRequestPerTransaction ==
    \A n \in 1..Len(vreq) :
        /\ vreq[n].ret.id = vreq[n].request_id
        /\ Len(vreq[n].ret.reqs) = Len(body)
        /\ \A i \in 1..Len(body) :
              /\ vreq[n].ret.reqs[i] = ExpectedReq(body[i])
              /\ vreq[n].ret.reqs[i] =
                    [tx_verify_req_msg(body[i].transaction_with_sig)
                        EXCEPT !.signer = body[i].signer]

\* a request for a block of two different transactions
C7_Witness ==
    /\ vreq # <<>> /\ vreq[1].request_id = MaxReqId
    /\ Len(body) = 2 /\ body[1] # body[2]
    /\ vreq[1].ret.reqs[2].signer = body[2].signer /\ body[2].signer # <<>>

\* C8: decoding what this system encoded gives back the proof that was
\* encoded, and encoding the decoded proof gives back the same bytes.
C8_ProofRoundTrip ==
    (own # <<>> /\ pres # <<>>) =>
        /\ pres[1] = [kind |-> "Ok", value |-> own]
        /\ Proof_rlp_append(pres[1].value[1]) = wire

\* a proof with content and a type other than the default, encoded and decoded
C8_Witness ==
    /\ own # <<>> /\ pres # <<>>
    /\ own[1].content # <<>> /\ own[1].type # 0

\* C9: SecTrieDB::get(k) and contains(k) return what the raw trie returns for
\* crypt_hash(k), root is the raw trie's root, and a value inserted into the
\* raw trie under crypt_hash(k) is what get(k) returns on a SecTrieDB opened on
\* the same database and root.
C9_SecTrieAddressesByHashedKey ==
    LET raw == TrieDB_new(memdb.db, memdb.root)
        t == SecTrieDB_new(memdb.db, memdb.root)
    IN  /\ SecTrieDB_raw(t) = raw
        /\ SecTrieDB_root(t) = memdb.root
        /\ \A k \in TrieKeys :
              /\ SecTrieDB_get(t, k) = TrieDB_get(raw, crypt_hash(k))
              /\ SecTrieDB_contains(t, k) = TrieDB_contains(raw, crypt_hash(k))
        /\ \A i \in 1..Len(lastIns) :
              lastIns[i].hashed =>
                  /\ SecTrieDB_get(t, lastIns[i].key) = <<lastIns[i].value>>
                  /\ SecTrieDB_contains(t, lastIns[i].key)
        /\ \A i \in 1..Len(got) :
              /\ got[i].root = memdb.root
              /\ got[i].value = TrieDB_get(raw, crypt_hash(got[i].key))
              /\ got[i].has = TrieDB_contains(raw, crypt_hash(got[i].key))
              /\ (lastIns # <<>> /\ lastIns[1].hashed
                     /\ lastIns[1].key = got[i].key)
                    => got[i].value = <<lastIns[1].value>>

\* the value just inserted under the hash of a key was looked up by that key
C9_Witness ==
    /\ got # <<>> /\ lastIns # <<>> /\ lastIns[1].hashed
    /\ lastIns[1].key = got[1].key
    /\ got[1].value = <<lastIns[1].value>>
    /\ TrieDB_get(TrieDB_new(memdb.db, memdb.root), got[1].key) = <<>>

\* C10 as stated: for every block, the i-th Merkle leaf equals the tx_hash of
\* the i-th verification request.
C10_LeavesEqualRequestHashes ==
    \A n \in 1..Len(vreq) : \A i \in 1..Len(body) :
        transaction_hashes(body)[i] = vreq[n].ret.reqs[i].tx_hash

\* body transaction s caches the identity hash of the artifact it wraps
CachesIdentityHash(s) ==
    s.tx_hash = crypt_hash(UnverifiedTransaction_try_into(s.transaction_with_sig))

\* C10, amended: for every index i whose body transaction caches the identity
\* hash of the artifact it wraps (as every output of sign and of a successful
\* verify_transaction does), the i-th Merkle leaf equals the tx_hash of the
\* i-th verification request.
C10_LeavesEqualRequestHashesWhenCached ==
    \A n \in 1..Len(vreq) :
        /\ Len(transaction_hashes(body)) = Len(vreq[n].ret.reqs)
        /\ \A i \in 1..Len(body) :
              CachesIdentityHash(body[i]) =>
                  transaction_hashes(body)[i] = vreq[n].ret.reqs[i].tx_hash

\* a request for a block in which one transaction caches its identity hash
\* and the other does not
C10_Witness ==
    /\ vreq # <<>> /\ Len(body) = 2
    /\ \E i, j \in 1..2 :
          /\ CachesIdentityHash(body[i])
          /\ ~CachesIdentityHash(body[j])
          /\ transaction_hashes(body)[i] = vreq[1].ret.reqs[i].tx_hash
          /\ transaction_hashes(body)[j] # vreq[1].ret.reqs[j].tx_hash

=============================================================================
